---------------------------- MODULE Spec2Model ----------------------------
(***************************************************************************)
(* Model of src/main.py: the Veloera check-in service.                     *)
(*                                                                         *)
(* The process (main) loads a configuration file, then runs one            *)
(* VeloeraCheckinService.checkin per account, in list order, and maps the  *)
(* outcomes to an exit code.  checkin is a bounded retry loop around one   *)
(* HTTP POST whose response is classified into a CheckinResult.            *)
(*                                                                         *)
(* Python strings whose content is inspected (the API message) are         *)
(* sequences of characters; the Chinese characters of the source are       *)
(* written in pinyin ("yi","qian","dao" is the marker of line 101).        *)
(* Python exceptions are modelled as explicit outcomes [kind |-> "raise"]  *)
(* that the enclosing try statements catch or let through.                 *)
(* List positions are 1-based here (enumerate of line 155 is 0-based).     *)
(***************************************************************************)
EXTENDS Integers, Sequences, FiniteSets, TLC

VARIABLES
    pc,             \* position of the process: "start", "loop", "attempt",
                    \* "after_try", "returned", "exited"
    exit_code,      \* -1 while running, else the process exit status
    fault,          \* the uncaught exception that ended the process, if any:
                    \* its class and the function that raised it
    config_file,    \* the environment: the file VELOERA_CONFIG_FILE names
    accounts_list,  \* main.accounts_list (a JSON value)
    idx,            \* position of the for loop of line 155
    cfg,            \* main.cfg, the VeloeraConfig of the current account
    attempt,        \* checkin.attempt
    res,            \* main.res, the CheckinResult returned last
    results,        \* main.results
    success_count,  \* main.success_count
    session,        \* service.session: the headers it sends with each POST
    log,            \* history: every POST, sleep and return, in order
    lastResp,       \* history: what the latest POST of the checkin call in
                    \* progress or just returned got
    seen            \* history: classes of all POST outcomes of that call

vars == <<pc, exit_code, fault, config_file, accounts_list, idx, cfg, attempt,
          res, results, success_count, session, log, lastResp, seen>>

(***************************************************************************)
(* Bounds of the model.                                                    *)
(***************************************************************************)
MaxAccounts == 2
MaxRetry == 1

(***************************************************************************)
(* Program constants.                                                      *)
(***************************************************************************)
DefaultTimeout == 30
DefaultRetryCount == 3
DefaultRetryDelay == 1
BytesPerMB == 1048576

None == [t |-> "null"]

(***************************************************************************)
(* JSON values, tagged by type.                                            *)
(***************************************************************************)
JBool(b) == [t |-> "bool", b |-> b]
JStr(s) == [t |-> "str", s |-> s]
JNum(n) == [t |-> "num", n |-> n]
JObj(o) == [t |-> "obj", o |-> o]
JArr(a) == [t |-> "arr", a |-> a]

\* dict.get(key, default)
Get(o, key, default) == IF key \in DOMAIN o THEN o[key] ELSE default

\* Python truthiness of a JSON value (bool(x))
Truthy(v) ==
    CASE v.t = "bool" -> v.b
      [] v.t = "num" -> v.n # 0
      [] v.t = "str" -> v.s # <<>>
      [] v.t = "arr" -> v.a # <<>>
      [] v.t = "obj" -> DOMAIN v.o # {}
      [] OTHER -> FALSE

\* str(x) as an f-string renders it
Str(v) ==
    CASE v.t = "str" -> v.s
      [] v.t = "null" -> <<"None">>
      [] v.t = "bool" -> IF v.b THEN <<"True">> ELSE <<"False">>
      [] OTHER -> <<"?">>

\* k in msg, for two strings: k is a contiguous part of msg
Contains(k, msg) ==
    \E i \in 0..(Len(msg) - Len(k)) : SubSeq(msg, i + 1, i + Len(k)) = k

(***************************************************************************)
(* CheckinStatus and CheckinResult.                                        *)
(***************************************************************************)
SUCCESS == "success"
FAILED == "failed"
ALREADY_CHECKED == "already_checked"
UNAUTHORIZED == "unauthorized"
CheckinStatus == {SUCCESS, FAILED, ALREADY_CHECKED, UNAUTHORIZED}

\* CheckinResult with the parsed payload passed as data in every return
CheckinResultWithPayload(status, message) ==
    [status |-> status, message |-> message, data |-> JObj(<<>>)]

\* CheckinResult(status, message): data keeps its default, None
CheckinResult(status, message) ==
    [status |-> status, message |-> message, data |-> None]

MsgUnauthorized == <<"Token or User ID invalid/expired">>
MsgNotJson == <<"response is not JSON">>
MsgExhausted == <<"retries exhausted">>
MsgApiFailed == <<"API returned failure: ">>
MsgQuota == <<" | remaining quota: ">>
MsgMB == <<" MB">>
DefaultMessage == <<"no message">>

\* the "already checked in" markers of line 101
Markers ==
    { <<"yi", "qian", "dao">>,
      <<"a", "l", "r", "e", "a", "d", "y">>,
      <<"chong", "fu">> }


(***************************************************************************)
(* The quota text of line 107: quota / (1024 * 1024) under {:.2f}.         *)
(* quota / 2^20 is exact in binary floating point, so the two decimals are *)
(* the exact quotient rounded half to even.                                *)
(***************************************************************************)
\* Hundredths with the quotient cut off instead of rounded
HundredthsTruncated(quota) == (quota * 100) \div BytesPerMB

\* quota * 100 / 2^20 rounded half to even: the value in hundredths of a MB
Hundredths(quota) ==
    LET n == quota * 100
        q == n \div BytesPerMB
        r == n % BytesPerMB
    IN  IF 2 * r > BytesPerMB \/ (2 * r = BytesPerMB /\ q % 2 = 1)
        THEN q + 1
        ELSE q

\* f"{mb:.2f}"
Format2f(quota) ==
    LET h == Hundredths(quota)
    IN  <<ToString(h \div 100), ".", ToString((h % 100) \div 10), ToString(h % 10)>>

(***************************************************************************)
(* Outcomes of a piece of Python code: it returns a value from checkin, it *)
(* raises, or it runs on to the statement after it.                        *)
(***************************************************************************)
Return(result) == [kind |-> "return", result |-> result]
Raise(exc) == [kind |-> "raise", exc |-> exc]
FallThrough == [kind |-> "next"]

\* Exception classes that can arise in checkin; all derive from Exception.
\* "RequestException" stands for what session.post raises (connection error,
\* timeout); requests' JSONDecodeError derives from json.JSONDecodeError.
ExceptionClasses ==
    {"RequestException", "JSONDecodeError", "AttributeError", "TypeError"}

\* lines 96-109: the body of the inner try, given what response.json() gives
InnerTryBody(body) ==
    IF ~body.json THEN Raise("JSONDecodeError")                  \* line 96
    ELSE LET data == body.val IN
    IF data.t # "obj" THEN Raise("AttributeError")               \* line 97
    ELSE LET success == Get(data.o, "success", JBool(FALSE))
             msg == Get(data.o, "message", JStr(DefaultMessage))
         IN
    IF ~Truthy(success) /\ msg.t \in {"null", "num", "bool"}
    THEN Raise("TypeError")                                      \* line 101
    ELSE IF ~Truthy(success) /\ msg.t = "str"
            /\ \E k \in Markers : Contains(k, msg.s)
    THEN Return(CheckinResult(ALREADY_CHECKED, msg.s))           \* line 102
    ELSE IF Truthy(success)
    THEN LET d == Get(data.o, "data", JObj(<<>>)) IN
         IF d.t # "obj" THEN Raise("AttributeError")             \* line 105
         ELSE LET quota == Get(d.o, "quota", JNum(0)) IN
         IF quota.t # "num" THEN Raise("TypeError")              \* line 106
         ELSE Return(CheckinResult(SUCCESS,
                  Str(msg) \o MsgQuota \o Format2f(quota.n) \o MsgMB))
    ELSE Return(CheckinResult(FAILED, MsgApiFailed \o Str(msg))) \* line 109

\* lines 95-111: the inner try statement; it catches json.JSONDecodeError only
InnerTry(body) ==
    LET o == InnerTryBody(body)
    IN  IF o.kind = "raise" /\ o.exc = "JSONDecodeError"
        THEN Return(CheckinResult(FAILED, MsgNotJson))
        ELSE o

\* OuterTryBody without the 401 test of lines 91-92: a 401 is retried
OuterTryBodyRetrying401(resp) ==
    IF resp.net # "ok" THEN Raise("RequestException")
    ELSE IF resp.status = 200 THEN InnerTry(resp.body)
    ELSE FallThrough

\* lines 87-113: the body of the outer try, given what session.post gives
OuterTryBody(resp) ==
    IF resp.net # "ok" THEN Raise("RequestException")            \* line 88
    ELSE IF resp.status = 401
    THEN Return(CheckinResult(UNAUTHORIZED, MsgUnauthorized))    \* line 92
    ELSE IF resp.status = 200 THEN InnerTry(resp.body)           \* line 94
    ELSE FallThrough                                             \* line 113

\* OuterCatches narrowed to the exceptions of the HTTP library
CatchesRequestErrorsOnly(exc) == exc = "RequestException"

\* line 115: except Exception catches every class that derives from Exception
OuterCatches(exc) == exc \in ExceptionClasses

\* lines 86-116: the outer try statement
OuterTry(resp) ==
    LET o == OuterTryBody(resp)
    IN  IF o.kind = "raise" /\ OuterCatches(o.exc) THEN FallThrough ELSE o

(***************************************************************************)
(* The responses the server may give to one POST.                          *)
(***************************************************************************)
MsgOK == <<"O", "K">>
MsgSignedToday == <<"jin", "ri", "yi", "qian", "dao">>
MsgAlready == <<"a", "l", "r", "e", "a", "d", "y", " ", "i", "n">>
MsgDuplicate == <<"chong", "fu", "qian", "dao">>
MsgPartial == <<"yi", "qian">>

NotJson == [json |-> FALSE]
Json(v) == [json |-> TRUE, val |-> v]

Bodies ==
    { NotJson,
      Json(JArr(<<>>)),
      Json(JObj(<<>>)),
      Json(JObj([success |-> JBool(TRUE), message |-> JStr(MsgOK),
                 data |-> JObj([quota |-> JNum(2 * BytesPerMB)])])),
      Json(JObj([success |-> JBool(TRUE), message |-> JStr(MsgSignedToday)])),
      Json(JObj([success |-> JBool(TRUE), message |-> JStr(MsgOK),
                 data |-> None])),
      Json(JObj([success |-> JBool(TRUE),
                 data |-> JObj([quota |-> JStr(<<"1">>)])])),
      Json(JObj([success |-> JBool(FALSE), message |-> JStr(MsgSignedToday)])),
      Json(JObj([success |-> JBool(FALSE), message |-> JStr(MsgAlready)])),
      Json(JObj([message |-> JStr(MsgDuplicate)])),
      Json(JObj([success |-> JBool(FALSE), message |-> JStr(MsgPartial)])),
      Json(JObj([success |-> JBool(FALSE), message |-> None])) }

OtherStatuses == {500}

NetError == [net |-> "error"]
Response(status, body) == [net |-> "ok", status |-> status, body |-> body]

Responses ==
    {NetError}
    \cup {Response(200, b) : b \in Bodies}
    \cup {Response(s, NotJson) : s \in {401} \cup OtherStatuses}

\* the class of a POST outcome, as the history variable seen records it
Class(resp) == IF resp.net # "ok" THEN "error" ELSE ToString(resp.status)

(***************************************************************************)
(* VeloeraConfig (lines 33-45) and the account objects of the config file. *)
(***************************************************************************)
RequiredFields == {"base_url", "user_id", "access_token"}
ConfigFields ==
    RequiredFields \cup {"checkin_endpoint", "timeout", "retry_count", "retry_delay"}

\* Constructible if unexpected keywords were dropped before the call
ConstructibleIgnoringExtras(acc) == RequiredFields \subseteq DOMAIN acc

\* VeloeraConfig(**acc) raises TypeError on a missing or an unexpected keyword
Constructible(acc) ==
    RequiredFields \subseteq DOMAIN acc /\ DOMAIN acc \subseteq ConfigFields

VeloeraConfig(acc) ==
    [base_url |-> acc.base_url,
     user_id |-> acc.user_id,
     access_token |-> acc.access_token,
     checkin_endpoint |-> Get(acc, "checkin_endpoint", "/api/user/check_in"),
     timeout |-> Get(acc, "timeout", DefaultTimeout),
     retry_count |-> Get(acc, "retry_count", DefaultRetryCount),
     retry_delay |-> Get(acc, "retry_delay", DefaultRetryDelay)]

\* urljoin(base_url, checkin_endpoint), line 45, for a base_url that is an
\* origin without a path and an endpoint that is an absolute path: the
\* endpoint put after the origin
UrlJoin(base, endpoint) == <<base, endpoint>>
CheckinUrl(c) == UrlJoin(c.base_url, c.checkin_endpoint)

\* lines 72-81
GetHeaders(c) ==
    ("User-Agent" :> "Mozilla/5.0") @@
    ("Accept" :> "application/json, text/plain, */*") @@
    ("Authorization" :> <<"Bearer ", c.access_token>>) @@
    ("Veloera-User" :> c.user_id) @@
    ("Origin" :> c.base_url) @@
    ("Referer" :> <<c.base_url, "/personal">>) @@
    ("Content-Length" :> "0")

NoSession == [none |-> TRUE]

\* one session kept for all services, its headers set by the first one
SharedSession(previous, c) ==
    IF "Authorization" \in DOMAIN previous THEN previous ELSE GetHeaders(c)

\* lines 69-70: a new Session per service, with the headers of its config
\* (previous is the session of the service before, which is not used)
ServiceSession(previous, c) == GetHeaders(c)

NoConfig == <<>>
NoResult == [status |-> "none"]
NoResponse == [net |-> "none"]
NoFault == [exc |-> "none", where |-> "none"]
Uncaught(exc, where) == [exc |-> exc, where |-> where]

AccountWithRetry(k) ==
    [base_url |-> "https://a", user_id |-> "1", access_token |-> "t",
     retry_count |-> k]
AccountDefaults ==
    [base_url |-> "https://b", user_id |-> "2", access_token |-> "u"]
AccountNoToken == [base_url |-> "https://a", user_id |-> "1"]
AccountExtraField ==
    [base_url |-> "https://a", user_id |-> "1", access_token |-> "t",
     note |-> "x"]

\* explicit retry_count values are 1..MaxRetry; AccountDefaults has the
\* default of line 40
Accounts ==
    {AccountWithRetry(k) : k \in 1..MaxRetry}
    \cup {AccountDefaults, AccountNoToken, AccountExtraField}

AccountLists == UNION {[1..n -> Accounts] : n \in 0..MaxAccounts}

\* what the config file may be: absent, or present with some content
ConfigFiles ==
    { [exists |-> FALSE], [exists |-> TRUE, content |-> NotJson] }
    \cup {[exists |-> TRUE, content |-> Json(JArr(l))] : l \in AccountLists}
    \cup {[exists |-> TRUE, content |-> Json(JObj([accounts |-> JArr(l)]))] :
             l \in {m \in AccountLists : Len(m) <= 1}}
    \cup {[exists |-> TRUE, content |-> Json(v)] :
             v \in {JObj(<<>>), None, JNum(5)}}

(***************************************************************************)
(* Initial state: the process has started, nothing has been read.          *)
(***************************************************************************)
Started ==
    /\ pc = "start"
    /\ exit_code = -1
    /\ fault = NoFault
    /\ accounts_list = None
    /\ idx = 0
    /\ cfg = NoConfig
    /\ attempt = 0
    /\ res = NoResult
    /\ results = <<>>
    /\ success_count = 0
    /\ session = NoSession
    /\ log = <<>>
    /\ lastResp = NoResponse
    /\ seen = {}

Init == config_file \in ConfigFiles /\ Started

\* sys.exit(code), or the interpreter ending on an uncaught exception (code 1)
Exit(code, uncaught) ==
    /\ pc' = "exited"
    /\ exit_code' = code
    /\ fault' = uncaught

\* line 142: the account list in either of the two file formats
AccountsOf(config_data) ==
    IF config_data.t = "obj"
    THEN Get(config_data.o, "accounts", JArr(<<>>))
    ELSE config_data

\* ConfigUsable without the test of lines 147-149
ConfigUsableIfParsed(file) == file.exists /\ file.content.json

\* lines 130-153 decide between sys.exit(1) and entering the loop
ConfigUsable(file) ==
    /\ file.exists                                   \* line 132
    /\ file.content.json                             \* lines 138-145
    /\ Truthy(AccountsOf(file.content.val))          \* line 147

\* lines 130-153
LoadConfig ==
    /\ pc = "start"
    /\ IF ConfigUsable(config_file)
       THEN /\ accounts_list' = AccountsOf(config_file.content.val)
            /\ idx' = 1
            /\ pc' = "loop"
            /\ UNCHANGED <<exit_code, fault>>
       ELSE /\ Exit(1, NoFault)
            /\ UNCHANGED <<accounts_list, idx>>
    /\ success_count' = 0
    /\ results' = <<>>
    /\ UNCHANGED <<config_file, cfg, attempt, res, session, log, lastResp, seen>>

\* the for statement of line 155 can iterate over accounts_list
Iterable(v) == v.t = "arr"

\* HasNextAttempt for a loop over range(1, retry_count + 2)
HasNextAttemptInclusive(a, retry_count) == a + 1 <= retry_count + 1

\* range(1, retry_count + 1) has a value after a
HasNextAttempt(a, retry_count) == a + 1 < retry_count + 1

\* SleepsAfter with the comparison of line 118 off by one
SleepsAfterEveryAttempt(a, retry_count) == a <= retry_count

\* line 118
SleepsAfter(a, retry_count) == a < retry_count

\* entries of the history variable log
Event(e) == [e |-> e, account |-> idx]
Post == [e |-> "post", account |-> idx, url |-> CheckinUrl(cfg),
         headers |-> session]
Returned(result) == [e |-> "return", account |-> idx, result |-> result]

\* line 155 on a value that cannot be iterated: TypeError, uncaught
IterateFault ==
    /\ pc = "loop"
    /\ ~Iterable(accounts_list)
    /\ Exit(1, Uncaught("TypeError", "main"))
    /\ UNCHANGED <<config_file, accounts_list, idx, cfg, attempt, res, results,
                   success_count, session, log, lastResp, seen>>

\* lines 155-158 and 85: the next account; its config and service are built,
\* and checkin is entered
NextAccount ==
    /\ pc = "loop"
    /\ Iterable(accounts_list)
    /\ idx <= Len(accounts_list.a)
    /\ LET acc == accounts_list.a[idx] IN
       IF Constructible(acc)
       THEN /\ cfg' = VeloeraConfig(acc)
            /\ session' = ServiceSession(session, cfg')
            /\ lastResp' = NoResponse
            /\ seen' = {}
            /\ IF HasNextAttempt(0, cfg'.retry_count)
               THEN /\ attempt' = 1
                    /\ pc' = "attempt"
                    /\ UNCHANGED <<res, log>>
               ELSE /\ res' = CheckinResult(FAILED, MsgExhausted)  \* line 121
                    /\ log' = Append(log, Returned(res'))
                    /\ pc' = "returned"
                    /\ UNCHANGED attempt
            /\ UNCHANGED <<exit_code, fault>>
       ELSE /\ Exit(1, Uncaught("TypeError", "main"))             \* line 157
            /\ UNCHANGED <<cfg, attempt, res, session, log, lastResp, seen>>
    /\ UNCHANGED <<config_file, accounts_list, idx, results, success_count>>

\* lines 86-116: one POST and the handling of its outcome
AttemptOn(responses) ==
    /\ pc = "attempt"
    /\ \E resp \in responses :
          LET o == OuterTry(resp) IN
          /\ lastResp' = resp
          /\ seen' = seen \cup {Class(resp)}
          /\ CASE o.kind = "return" ->
                    /\ res' = o.result
                    /\ log' = log \o <<Post, Returned(o.result)>>
                    /\ pc' = "returned"
                    /\ UNCHANGED <<exit_code, fault>>
               [] o.kind = "next" ->
                    /\ log' = Append(log, Post)
                    /\ pc' = "after_try"
                    /\ UNCHANGED <<res, exit_code, fault>>
               [] o.kind = "raise" ->
                    /\ log' = Append(log, Post)
                    /\ Exit(1, Uncaught(o.exc, "checkin"))
                    /\ UNCHANGED res
    /\ UNCHANGED <<config_file, accounts_list, idx, cfg, attempt, results,
                   success_count, session>>

Attempt == AttemptOn(Responses)

\* lines 118-121 and 85: the delay, then the next attempt or the final return
AfterTry ==
    /\ pc = "after_try"
    /\ LET slept == IF SleepsAfter(attempt, cfg.retry_count)
                    THEN Append(log, Event("sleep"))
                    ELSE log
       IN  IF HasNextAttempt(attempt, cfg.retry_count)
           THEN /\ attempt' = attempt + 1
                /\ log' = slept
                /\ pc' = "attempt"
                /\ UNCHANGED res
           ELSE /\ res' = CheckinResult(FAILED, MsgExhausted)     \* line 121
                /\ log' = Append(slept, Returned(res'))
                /\ pc' = "returned"
                /\ UNCHANGED attempt
    /\ UNCHANGED <<exit_code, fault, config_file, accounts_list, idx, cfg,
                   results, success_count, session, lastResp, seen>>

\* CountsAsSuccess with the counter raised in the else branch too
EveryStatusCounts(status) == status \in CheckinStatus

\* CountsAsSuccess without the branch of lines 165-167
OnlySuccessCounts(status) == status = SUCCESS

\* lines 162-169: the statuses that count as a success of the account
CountsAsSuccess(status) == status \in {SUCCESS, ALREADY_CHECKED}

\* Appended with the result put first (results.insert(0, res))
Prepended(list, r) == <<r>> \o list

\* line 160: results.append(res)
Appended(list, r) == Append(list, r)

\* lines 160-169
Record ==
    /\ pc = "returned"
    /\ results' = Appended(results, res)
    /\ success_count' =
          IF CountsAsSuccess(res.status) THEN success_count + 1 ELSE success_count
    /\ idx' = idx + 1
    /\ pc' = "loop"
    /\ lastResp' = NoResponse
    /\ seen' = {}
    /\ UNCHANGED <<exit_code, fault, config_file, accounts_list, cfg, attempt,
                   res, session, log>>

\* lines 173-177: the exit status of a completed run
ExitStatus(count, total) == IF count < total THEN 1 ELSE 0

\* lines 171-177
Finish ==
    /\ pc = "loop"
    /\ Iterable(accounts_list)
    /\ idx > Len(accounts_list.a)
    /\ Exit(ExitStatus(success_count, Len(accounts_list.a)), NoFault)
    /\ UNCHANGED <<config_file, accounts_list, idx, cfg, attempt, res, results,
                   success_count, session, log, lastResp, seen>>

Next ==
    \/ LoadConfig
    \/ IterateFault
    \/ NextAccount
    \/ Attempt
    \/ AfterTry
    \/ Record
    \/ Finish

Spec == Init /\ [][Next]_vars

(***************************************************************************)
(* The same program against a server that answers 200 with success true    *)
(* and a range of quotas, for the quota text of line 107.  100 * quota     *)
(* stays below 2^31.                                                       *)
(***************************************************************************)
QuotaSamples ==
    {0, 1, 5242, 5243, 131072, 393216, 1048576, 1572864, 2 * BytesPerMB,
     20 * BytesPerMB}

QuotaBodies ==
    {Json(JObj([success |-> JBool(TRUE), message |-> JStr(MsgOK),
                data |-> JObj([quota |-> JNum(q)])])) : q \in QuotaSamples}
    \cup
    { Json(JObj([success |-> JBool(TRUE), message |-> JStr(MsgSignedToday)])),
      Json(JObj([success |-> JBool(TRUE), data |-> JObj(<<>>)])),
      Json(JObj([success |-> JBool(TRUE), message |-> JStr(MsgOK),
                 data |-> None])),
      Json(JObj([success |-> JBool(TRUE),
                 data |-> JObj([quota |-> JStr(<<"1">>)])])) }

QuotaResponses == {Response(200, b) : b \in QuotaBodies}

QuotaConfigFiles ==
    {[exists |-> TRUE, content |-> Json(JArr(<<a>>))] :
        a \in {AccountWithRetry(1), AccountDefaults}}

InitQuota == config_file \in QuotaConfigFiles /\ Started

AttemptQuota == AttemptOn(QuotaResponses)

NextQuota ==
    \/ LoadConfig
    \/ NextAccount
    \/ AttemptQuota
    \/ AfterTry
    \/ Record
    \/ Finish

SpecQuota == InitQuota /\ [][NextQuota]_vars

(***************************************************************************)
(* Reading the history variable log.                                       *)
(***************************************************************************)
Count(e, i) ==
    Cardinality({k \in DOMAIN log : log[k].e = e /\ log[k].account = i})
Posts(i) == Count("post", i)
Sleeps(i) == Count("sleep", i)
ReturnedWith(i, status) ==
    \E k \in DOMAIN log :
        /\ log[k].e = "return"
        /\ log[k].account = i
        /\ log[k].result.status = status

Got(status) == lastResp.net = "ok" /\ lastResp.status = status

(***************************************************************************)
(* C1: a 401 at attempt k ends checkin at once with UNAUTHORIZED: k POSTs  *)
(* and k - 1 delays have been made for the account when it returns, and    *)
(* neither number changes afterwards.                                      *)
(***************************************************************************)
C1_UnauthorizedIsImmediate ==
    /\ [](Got(401) =>
            /\ pc = "returned"
            /\ res = CheckinResult(UNAUTHORIZED, MsgUnauthorized)
            /\ Posts(idx) = attempt
            /\ Sleeps(idx) = attempt - 1
            /\ log[Len(log)] = Returned(res))
    /\ [][\A i \in 1..idx :
            ReturnedWith(i, UNAUTHORIZED) =>
                Posts(i)' = Posts(i) /\ Sleeps(i)' = Sleeps(i)]_vars

\* account 1 got its 401 at the second attempt, and account 2 is under way
C1_Witness ==
    /\ Len(results) >= 1
    /\ results[1].status = UNAUTHORIZED
    /\ Posts(1) = 2
    /\ Posts(2) >= 1

(***************************************************************************)
(* C2: when every POST of a checkin call fails at the network layer, the   *)
(* call does not end early or raise, and it returns FAILED "retries        *)
(* exhausted" after retry_count POSTs and retry_count - 1 delays.          *)
(***************************************************************************)
C2_NetworkErrorsExhaust ==
    seen = {"error"} =>
        /\ pc \in {"attempt", "after_try", "returned"}
        /\ pc = "returned" =>
              /\ res = CheckinResult(FAILED, MsgExhausted)
              /\ Posts(idx) = cfg.retry_count
              /\ Sleeps(idx) = cfg.retry_count - 1

C2_Witness ==
    /\ pc = "returned"
    /\ seen = {"error"}
    /\ cfg.retry_count = DefaultRetryCount

(***************************************************************************)
(* C3: when the loop has gone through a non-empty account list, the exit   *)
(* code is 0 if every result is SUCCESS or ALREADY_CHECKED and 1 if not.   *)
(***************************************************************************)
ProcessedToTheEnd ==
    /\ pc = "exited"
    /\ fault = NoFault
    /\ accounts_list.t = "arr"
    /\ Len(accounts_list.a) > 0
    /\ Len(results) = Len(accounts_list.a)

C3_ExitCodeAggregates ==
    ProcessedToTheEnd =>
        /\ exit_code \in {0, 1}
        /\ exit_code = 0 <=>
              \A i \in DOMAIN results :
                  results[i].status \in {SUCCESS, ALREADY_CHECKED}

C3_Witness ==
    /\ ProcessedToTheEnd
    /\ Len(results) = 2
    /\ results[1].status = ALREADY_CHECKED
    /\ results[2].status = SUCCESS
    /\ exit_code = 0

(***************************************************************************)
(* C4: checkin never raises: no exception leaves it, and what it returns   *)
(* is a CheckinResult whose status is FAILED or UNAUTHORIZED when the last *)
(* POST failed (network error, status other than 200, body that is not a   *)
(* JSON object).                                                           *)
(***************************************************************************)
FailureMode(resp) ==
    \/ resp.net = "error"
    \/ /\ resp.net = "ok"
       /\ \/ resp.status # 200
          \/ ~resp.body.json
          \/ resp.body.val.t # "obj"

C4_CheckinNeverRaises ==
    /\ fault.where # "checkin"
    /\ pc = "returned" =>
          /\ res.status \in CheckinStatus
          /\ FailureMode(lastResp) => res.status \in {FAILED, UNAUTHORIZED}

\* a network error and then a 200 whose body is a JSON array, both swallowed
C4_Witness ==
    /\ pc = "returned"
    /\ "error" \in seen
    /\ Got(200)
    /\ lastResp.body = Json(JArr(<<>>))

(***************************************************************************)
(* C5: one account's failure never prevents other accounts from being      *)
(* attempted: when the process has ended on an account list, checkin has   *)
(* been invoked (a POST has been made) for every account of the list from  *)
(* which a Config Record can be built.                                     *)
(***************************************************************************)
C5_EveryAccountAttempted ==
    pc = "exited" /\ accounts_list.t = "arr" =>
        \A i \in DOMAIN accounts_list.a :
            Constructible(accounts_list.a[i]) => Posts(i) >= 1

(***************************************************************************)
(* C6: every 200 response is terminal: the POST that got it is followed by *)
(* the return of checkin, with no further POST and no delay.               *)
(***************************************************************************)
C6_Every200IsTerminal ==
    Got(200) =>
        /\ pc = "returned"
        /\ log[Len(log)] = Returned(res)
        /\ log[Len(log) - 1] = Post

(***************************************************************************)
(* C7: a 200 response whose body is a JSON object is classified into       *)
(* exactly one of: SUCCESS when success is true; ALREADY_CHECKED with the  *)
(* API message unchanged when success is false and the message has a       *)
(* marker; FAILED "API returned failure: <message>" otherwise.             *)
(***************************************************************************)
HasMarker(m) == m.t = "str" /\ \E k \in Markers : Contains(k, m.s)

C7_ClassificationOfJsonObject ==
    (Got(200) /\ lastResp.body.json /\ lastResp.body.val.t = "obj") =>
        LET o == lastResp.body.val.o
            success == Get(o, "success", JBool(FALSE))
            m == Get(o, "message", JStr(DefaultMessage))
        IN  /\ pc = "returned"
            /\ IF success.t = "bool" /\ success.b
               THEN res.status = SUCCESS
               ELSE IF HasMarker(m)
               THEN res = CheckinResult(ALREADY_CHECKED, m.s)
               ELSE res = CheckinResult(FAILED, MsgApiFailed \o Str(m))

(***************************************************************************)
(* C8: a config file that is missing, unparsable or without accounts makes *)
(* the process exit with code 1 before any POST and before any checkin.    *)
(***************************************************************************)
WithoutAccounts(file) ==
    \/ ~file.exists
    \/ ~file.content.json
    \/ LET v == file.content.val
       IN  \/ v.t = "arr" /\ Len(v.a) = 0
           \/ /\ v.t = "obj"
              /\ \/ "accounts" \notin DOMAIN v.o
                 \/ v.o.accounts.t = "arr" /\ Len(v.o.accounts.a) = 0

C8_BadConfigExitsBeforeHttp ==
    (WithoutAccounts(config_file) /\ pc # "start") =>
        /\ pc = "exited"
        /\ exit_code = 1
        /\ Len(log) = 0
        /\ attempt = 0
        /\ Len(results) = 0

\* the file is a JSON object with an empty accounts array
C8_Witness ==
    /\ pc = "exited"
    /\ exit_code = 1
    /\ config_file.exists
    /\ config_file.content.json
    /\ config_file.content.val.t = "obj"
    /\ "accounts" \in DOMAIN config_file.content.val.o
    /\ Len(config_file.content.val.o.accounts.a) = 0

(***************************************************************************)
(* C9: accounts are processed one after the other in list order: in the    *)
(* log every event of an account precedes every event of a later account,  *)
(* the return of an account is its last event, an account is under way     *)
(* only when the results of all earlier ones are recorded, and results[i]  *)
(* is what checkin returned for account i.                                 *)
(***************************************************************************)
InCheckin == pc \in {"attempt", "after_try", "returned"}

C9_SequentialInListOrder ==
    /\ \A k, l \in DOMAIN log :
          k < l =>
              /\ log[k].account <= log[l].account
              /\ log[k].account = log[l].account => log[k].e # "return"
    /\ InCheckin =>
          /\ Len(results) = idx - 1
          /\ cfg = VeloeraConfig(accounts_list.a[idx])
          /\ \A k \in DOMAIN log : log[k].account <= idx
    /\ \A i \in DOMAIN results :
          \E k \in DOMAIN log :
              /\ log[k].e = "return"
              /\ log[k].account = i
              /\ log[k].result = results[i]

\* two accounts with several POSTs each and different results
C9_Witness ==
    /\ Len(results) = 2
    /\ Posts(1) >= 2
    /\ Posts(2) >= 2
    /\ results[1].status = UNAUTHORIZED
    /\ results[2].status = SUCCESS

(***************************************************************************)
(* C10: checkin returns FAILED "retries exhausted" if and only if          *)
(* retry_count POSTs were made and each ended in a network error or in a   *)
(* status other than 200 and 401.                                          *)
(***************************************************************************)
RetryableClasses == {"error"} \cup {ToString(st) : st \in OtherStatuses}

C10_ExhaustedIffAllRetryable ==
    pc = "returned" =>
        (res = CheckinResult(FAILED, MsgExhausted)
            <=> (Posts(idx) = cfg.retry_count /\ seen \subseteq RetryableClasses))

(***************************************************************************)
(* C11, as amended: an account object is accepted exactly when it has the  *)
(* three required fields and no field that VeloeraConfig does not have.    *)
(* An unknown extra field makes construction fail with TypeError, as a     *)
(* missing required field does; for an accepted object the Config Record   *)
(* holds the object's values, defaults elsewhere, and checkin is run.      *)
(***************************************************************************)
HasRequired(acc) == {"base_url", "user_id", "access_token"} \subseteq DOMAIN acc
HasUnknown(acc) ==
    \E f \in DOMAIN acc :
        f \notin {"base_url", "user_id", "access_token", "checkin_endpoint",
                  "timeout", "retry_count", "retry_delay"}

\* the loop has ended on the account at position idx with an uncaught fault
ConstructionFailed ==
    /\ pc = "exited"
    /\ fault = Uncaught("TypeError", "main")
    /\ accounts_list.t = "arr"

C12_NoFaultInBatchLoop ==
    (pc = "exited" /\ accounts_list.t = "arr") =>
        /\ fault = NoFault
        /\ Len(results) = Len(accounts_list.a)

(***************************************************************************)
(* C14: every CheckinResult that checkin returns has a message, and one    *)
(* whose status is FAILED, ALREADY_CHECKED or UNAUTHORIZED has data None.  *)
(***************************************************************************)
WellFormedResult(r) ==
    /\ r.status \in CheckinStatus
    /\ Len(r.message) >= 1
    /\ r.status # SUCCESS => r.data.t = "null"

C14_DataOnlyOnSuccess ==
    /\ pc = "returned" => WellFormedResult(res)
    /\ \A i \in DOMAIN results : WellFormedResult(results[i])

\* results of three kinds that are not SUCCESS
C14_Witness ==
    /\ pc = "returned"
    /\ res.status = ALREADY_CHECKED
    /\ Len(results) = 1
    /\ results[1].status = UNAUTHORIZED

(***************************************************************************)
(* C15: when checkin returns, the delays made are the POSTs made minus     *)
(* one; a delay comes only after a retryable failure that is not the last  *)
(* attempt, never after the final attempt, and never after a 401 or a 200. *)
(***************************************************************************)
C15_DelaysAreRequestsMinusOne ==
    /\ pc = "returned" =>
          /\ Sleeps(idx) = Posts(idx) - 1
          /\ log[Len(log)].e = "return"
          /\ log[Len(log) - 1].e = "post"
    /\ InCheckin => Sleeps(idx) < cfg.retry_count
    /\ (Len(log) >= 1 /\ log[Len(log)].e = "sleep") =>
          /\ log[Len(log) - 1].e = "post"
          /\ ~Got(401)
          /\ ~Got(200)

(***************************************************************************)
(* C18: in the loop, success_count is the number of recorded results whose *)
(* status is SUCCESS or ALREADY_CHECKED, the recorded results are those of *)
(* the accounts processed, and                                             *)
(* 0 <= success_count <= processed <= len(accounts_list).                  *)
(***************************************************************************)
Successes ==
    Cardinality({i \in DOMAIN results :
                    results[i].status \in {SUCCESS, ALREADY_CHECKED}})

\* accounts for which lines 157-169 have run: those whose checkin has
\* returned, less the one whose result is not recorded yet
Processed ==
    Cardinality({log[k].account : k \in {j \in DOMAIN log : log[j].e = "return"}})
        - (IF pc = "returned" THEN 1 ELSE 0)

C18_SuccessCountInvariant ==
    accounts_list.t = "arr" =>
        /\ success_count = Successes
        /\ Len(results) = Processed
        /\ pc = "loop" => Processed = idx - 1
        /\ 0 <= success_count
        /\ success_count <= Processed
        /\ Processed <= Len(accounts_list.a)

\* two accounts processed, one of them counted
C18_Witness ==
    /\ pc = "loop"
    /\ Len(results) = 2
    /\ success_count = 1
    /\ results[1].status = FAILED
    /\ results[2].status = ALREADY_CHECKED

(***************************************************************************)
(* C17: every POST made while account i is processed goes to account i's   *)
(* own checkin_url and carries account i's access_token in Authorization   *)
(* and account i's user_id in Veloera-User; it carries no other account's  *)
(* token or user id.                                                       *)
(***************************************************************************)
C17_NoCredentialCrossesAccounts ==
    \A k \in DOMAIN log :
        log[k].e = "post" =>
            LET i == log[k].account
                acc == accounts_list.a[i]
                h == log[k].headers
            IN  /\ log[k].url[1] = acc.base_url
                /\ log[k].url[2] = "/api/user/check_in"
                /\ h["Authorization"] = <<"Bearer ", acc.access_token>>
                /\ h["Veloera-User"] = acc.user_id
                /\ h["Origin"] = acc.base_url
                /\ \A j \in DOMAIN accounts_list.a :
                      LET other == accounts_list.a[j]
                      IN  /\ ("access_token" \in DOMAIN other
                                /\ other.access_token # acc.access_token)
                             => h["Authorization"][2] # other.access_token
                          /\ other.user_id # acc.user_id
                             => h["Veloera-User"] # other.user_id

\* POSTs were made for two accounts with different credentials
C17_Witness ==
    /\ Posts(1) >= 1
    /\ Posts(2) >= 2
    /\ accounts_list.a[1].access_token # accounts_list.a[2].access_token
    /\ accounts_list.a[1].user_id # accounts_list.a[2].user_id

(***************************************************************************)
(* C13: a 200 response with success true, a message that is a string or    *)
(* absent, and a quota that is a number or absent (data or quota absent:   *)
(* 0) gives SUCCESS with the message                                       *)
(* "<message> | remaining quota: <q> MB", q being quota / 1,048,576 with   *)
(* exactly two decimals (within 0.005 of the quotient); 2097152 gives 2.00 *)
(* and an absent quota 0.00.                                               *)
(***************************************************************************)
Abs(x) == IF x < 0 THEN -x ELSE x

SuccessWithQuota(o) ==
    /\ "success" \in DOMAIN o /\ o.success.t = "bool" /\ o.success.b
    /\ "message" \in DOMAIN o => o.message.t = "str"
    /\ "data" \in DOMAIN o =>
          /\ o.data.t = "obj"
          /\ "quota" \in DOMAIN o.data.o => o.data.o.quota.t = "num"

QuotaOf(o) ==
    IF "data" \in DOMAIN o /\ "quota" \in DOMAIN o.data.o
    THEN o.data.o.quota.n
    ELSE 0

C13_QuotaMessage ==
    (Got(200) /\ lastResp.body.json /\ lastResp.body.val.t = "obj"
        /\ SuccessWithQuota(lastResp.body.val.o)) =>
        LET o == lastResp.body.val.o
            m == IF "message" \in DOMAIN o THEN o.message.s ELSE DefaultMessage
            q == QuotaOf(o)
            text == res.message
            n == Len(m)
        IN  /\ pc = "returned"
            /\ res.status = SUCCESS
            /\ Len(text) = n + 6
            /\ SubSeq(text, 1, n) = m
            /\ text[n + 1] = " | remaining quota: "
            /\ text[n + 3] = "."
            /\ text[n + 6] = " MB"
            /\ \E h \in {(100 * q) \div BytesPerMB, (100 * q) \div BytesPerMB + 1} :
                  /\ 2 * Abs(h * BytesPerMB - 100 * q) <= BytesPerMB
                  /\ text[n + 2] = ToString(h \div 100)
                  /\ text[n + 4] = ToString((h % 100) \div 10)
                  /\ text[n + 5] = ToString(h % 10)
            /\ q = 2097152 => SubSeq(text, n + 2, n + 5) = <<"2", ".", "0", "0">>
            /\ q = 0 => SubSeq(text, n + 2, n + 5) = <<"0", ".", "0", "0">>

\* the example of the specification: quota 2097152 is shown as 2.00 MB
C13_Witness ==
    /\ pc = "returned"
    /\ Got(200)
    /\ lastResp.body.json
    /\ QuotaOf(lastResp.body.val.o) = 2097152
    /\ res = CheckinResult(SUCCESS,
                <<"O", "K", " | remaining quota: ", "2", ".", "0", "0", " MB">>)

(***************************************************************************)
(* C16: with retry_count >= 1, whatever the outcomes of the attempts,      *)
(* checkin returns after at least 1 and at most retry_count POSTs, and the *)
(* run over the accounts exits after at most the sum of the accounts'      *)
(* retry_count values in POSTs.  Termination is stated with a variant:     *)
(* StepsLeft is a natural number that every step of the program lowers,    *)
(* it is 0 exactly when the program has exited, and a program that has     *)
(* not exited always has a step to take; so checkin returns within         *)
(* 2 * retry_count steps of its start and the run exits within             *)
(* StepsLeft steps of any state.                                           *)
(***************************************************************************)
RetryCountOf(account) ==
    IF "retry_count" \in DOMAIN account
    THEN account.retry_count
    ELSE DefaultRetryCount

RECURSIVE SumOfRetryCounts(_)
SumOfRetryCounts(list) ==
    IF list = <<>>
    THEN 0
    ELSE RetryCountOf(Head(list)) + SumOfRetryCounts(Tail(list))

TotalPosts == Cardinality({k \in DOMAIN log : log[k].e = "post"})

C16_RequestsBounded ==
    /\ (InCheckin /\ cfg.retry_count >= 1) =>
          /\ Posts(idx) <= cfg.retry_count
          /\ pc \in {"after_try", "returned"} => Posts(idx) >= 1
    /\ accounts_list.t = "arr" =>
          TotalPosts <= SumOfRetryCounts(accounts_list.a)
    /\ accounts_list.t # "arr" => TotalPosts = 0

\* steps of one account: NextAccount, an Attempt and an AfterTry for each
\* pass of the loop, Record
RECURSIVE StepsFor(_)
StepsFor(list) ==
    IF list = <<>>
    THEN 1
    ELSE 2 * RetryCountOf(Head(list)) + 2 + StepsFor(Tail(list))

LongestRun ==
    MaxAccounts * (2 * (IF MaxRetry > DefaultRetryCount
                        THEN MaxRetry
                        ELSE DefaultRetryCount) + 2) + 2

\* steps the accounts from index i on still take, and the exit
StepsFrom(i) ==
    IF accounts_list.t = "arr"
    THEN StepsFor(SubSeq(accounts_list.a, i, Len(accounts_list.a)))
    ELSE 1

StepsLeft ==
    CASE pc = "start"     -> LongestRun
      [] pc = "loop"      -> StepsFrom(idx)
      [] pc = "attempt"   ->
            2 * (cfg.retry_count - attempt) + 3 + StepsFrom(idx + 1)
      [] pc = "after_try" ->
            2 * (cfg.retry_count - attempt) + 2 + StepsFrom(idx + 1)
      [] pc = "returned"  -> 1 + StepsFrom(idx + 1)
      [] pc = "exited"    -> 0

C16_BoundedAndTerminates ==
    /\ [](/\ C16_RequestsBounded
          /\ StepsLeft >= 0
          /\ StepsLeft = 0 <=> pc = "exited"
          /\ pc # "exited" => ENABLED Next
          /\ pc \in {"attempt", "after_try"} =>
                 StepsLeft - (1 + StepsFrom(idx + 1)) <= 2 * cfg.retry_count)
    /\ [][StepsLeft' < StepsLeft]_vars

\* a run that used every attempt of an account with the default of 3 and
\* has exited
C16_Witness ==
    /\ pc = "exited"
    /\ \E i \in 1..MaxAccounts : Posts(i) = DefaultRetryCount
    /\ accounts_list.t = "arr"
    /\ TotalPosts = SumOfRetryCounts(accounts_list.a)

=============================================================================
